---- MODULE Spec2Model ----
(***************************************************************************)
(* Resolution and validation core of the SDML module model                 *)
(* (sdml-core/src/model/modules.rs and the definitions it walks).          *)
(*                                                                         *)
(* A module under validation (`parsed`) is built with the constructors of     *)
(* Module / ModuleBody, other modules are registered in the module store,  *)
(* and Module::validate walks the tree and reports diagnostics to the      *)
(* loader's reporter.  Every validate function is an operator taking the   *)
(* objects it can reach (the store and the reporter, as one record `st`)   *)
(* and returning them as they are after the call.  `panicked` is set when  *)
(* a call unwinds instead of returning; `detached` is a ModuleBody that    *)
(* is filled before it is handed to Module::new or Module::set_body.       *)
(***************************************************************************)
EXTENDS Integers, Sequences, FiniteSets, TLC

VARIABLES parsed, store, reporter, validations, last, panicked, detached

vars == <<parsed, store, reporter, validations, last, panicked, detached>>

(***************************************************************************)
(* Bounds                                                                  *)
(***************************************************************************)
\* imports + top-level annotations + definitions of the module under validation
MaxNodes == 2
\* calls of Module::validate in one session
MaxValidations == 2

(***************************************************************************)
(* Option, spans, header values                                            *)
(***************************************************************************)
None == <<>>

Some(x) == <<x>>

is_some(o) == o # None

unwrap(o) == o[1]

\* FileId::default()
DefaultFileId == 0

unwrap_or_default(o) == IF is_some(o) THEN unwrap(o) ELSE DefaultFileId

\* a source span is a byte range of the file the node was parsed from
Span(start, end) == [start |-> start, end |-> end]

Within(inner, outer) == outer.start <= inner.start /\ inner.end <= outer.end

HeaderValue(span, value) == [span |-> span, value |-> value]

\* a derived PartialEq for HeaderValue: span and value
HeaderValue_eq_derived(a, b) == a = b

\* impl PartialEq for HeaderValue: the value only, the span is ignored
HeaderValue_eq(a, b) == a.value = b.value

(***************************************************************************)
(* Names                                                                   *)
(***************************************************************************)
\* the reserved names of the library modules
LibraryModuleNames == {"rdfs"}

Identifier_is_library_module_name(name) == name \in LibraryModuleNames

\* which identifiers follow which case convention
PreferredCase(name, case) ==
    CASE case = "Module"        -> name \in {"m1", "m2", "rdfs"}
      [] case = "TypeDefinition" -> name \in {"Foo"}
      [] case = "RdfDefinition"  -> name \in {"Foo", "bar"}
      [] OTHER                   -> TRUE

(***************************************************************************)
(* Modules, bodies, imports, definitions, annotations                      *)
(***************************************************************************)
\* ModuleBody::default()
ModuleBody_default ==
    [file_id |-> None, is_library |-> FALSE,
     imports |-> <<>>, annotations |-> <<>>, definitions |-> <<>>]

ModuleBody_set_library_status(self, module_name) ==
    [self EXCEPT !.is_library = Identifier_is_library_module_name(module_name)]

Module_new(name, body) ==
    [file_id |-> None, span |-> None, name |-> name,
     version_info |-> None, version_uri |-> None,
     body |-> ModuleBody_set_library_status(body, name)]

Module_empty(name) == Module_new(name, ModuleBody_default)

Module_with_version_uri(self, version_uri) ==
    [self EXCEPT !.version_uri = Some(version_uri)]

Module_set_version_info(self, version_info) ==
    [self EXCEPT !.version_info = Some(version_info)]

Module_set_file_id(self, file_id) == [self EXCEPT !.file_id = Some(file_id)]

Module_with_source_span(self, span) == [self EXCEPT !.span = Some(span)]

Module_is_library_module(self) == Identifier_is_library_module_name(self.name)

\* Import::Module(ModuleImport { span, name, version_uri })
ModuleImport(span, name, version_uri) ==
    [variant |-> "Module", span |-> Some(span), module |-> name,
     member |-> None, version_uri |-> version_uri]

\* Import::Member(QualifiedIdentifier { span, module, member })
MemberImport(span, module, member) ==
    [variant |-> "Member", span |-> Some(span), module |-> module,
     member |-> Some(member), version_uri |-> None]

ImportStatement_new(imports) == [span |-> None, imports |-> imports]

ModuleBody_add_to_imports(self, stmt) ==
    [self EXCEPT !.imports = Append(@, stmt)]

ModuleBody_add_to_annotations(self, ann) ==
    [self EXCEPT !.annotations = Append(@, ann)]

\* a definition of any variant: EntityDef, StructureDef, RdfDef, TypeClassDef
Definition(variant, span, name, body) ==
    [variant |-> variant, span |-> Some(span), name |-> name, body |-> body]

\* a body without annotations, members or groups
EmptyBody == [annotations |-> <<>>, members |-> <<>>, groups |-> <<>>]

\* Annotation::Property(AnnotationProperty { span, name_reference, value })
AnnotationProperty(span, name_reference, value) ==
    [variant |-> "Property", span |-> Some(span),
     name_reference |-> Some(name_reference), value |-> Some(value),
     problems |-> 0]

\* Annotation::Constraint(Constraint); `problems` is the number of
\* diagnostics the constraint's own validation reports
AnnotationConstraint(span, problems) ==
    [variant |-> "Constraint", span |-> Some(span),
     name_reference |-> None, value |-> None, problems |-> problems]

(***************************************************************************)
(* Diagnostics (sdml_errors::diagnostics::functions)                       *)
(***************************************************************************)
\* `subject` holds the arguments of the message: an Identifier is <<name>>,
\* a QualifiedIdentifier <<module, member>>
Diagnostic(kind, file_id, span, subject, file_id2, span2) ==
    [kind |-> kind, file_id |-> file_id, span |-> span, subject |-> subject,
     file_id2 |-> file_id2, span2 |-> span2]

module_version_info_empty(file_id, span) ==
    Diagnostic("module-version-info-empty", file_id, span, <<>>, DefaultFileId, None)

module_is_incomplete(file_id, span, name) ==
    Diagnostic("module-is-incomplete", file_id, span, name, DefaultFileId, None)

module_version_mismatch(file_id, span, expected, file_id2, span2, actual) ==
    Diagnostic("module-version-mismatch", file_id, span, <<expected, actual>>,
               file_id2, span2)

module_version_not_found(file_id, span, expected, file_id2, span2, name) ==
    Diagnostic("module-version-not-found", file_id, span, <<expected>> \o name,
               file_id2, span2)

imported_module_not_found(file_id, span, name) ==
    Diagnostic("imported-module-not-found", file_id, span, name, DefaultFileId, None)

definition_not_found(file_id, span, name) ==
    Diagnostic("definition-not-found", file_id, span, name, DefaultFileId, None)

library_definition_not_allowed(file_id, span, name) ==
    Diagnostic("library-definition-not-allowed", file_id, span, name,
               DefaultFileId, None)

identifier_not_preferred_case(file_id, span, name, case) ==
    Diagnostic("identifier-not-preferred-case", file_id, span, <<name, case>>,
               DefaultFileId, None)

constraint_diagnostic(file_id, span) ==
    Diagnostic("constraint-not-valid", file_id, span, <<>>, DefaultFileId, None)

(***************************************************************************)
(* The objects a validation call can reach: the store and the reporter     *)
(***************************************************************************)
\* what a validation call holds: the store, the diagnostics the reporter has
\* kept, after how many more reports the reporter starts to return Err (None:
\* it never does), and whether the call has panicked
Reach(cache, loader, fails_after) ==
    [cache |-> cache, loader |-> loader, fails_after |-> fails_after,
     panicked |-> FALSE]

\* ModuleLoader::report(diagnostic) -> Result<(), Error>: the reporter keeps
\* what it is given, or returns the error of its sink
ModuleLoader_report(st, diagnostic) ==
    IF st.fails_after = Some(0)
    THEN [st |-> st, is_ok |-> FALSE]
    ELSE [st |-> [st EXCEPT !.loader = Append(@, diagnostic),
                            !.fails_after = IF is_some(@)
                                            THEN Some(unwrap(@) - 1) ELSE @],
          is_ok |-> TRUE]

\* loader.report(&diagnostic).unwrap(): an Err panics, and nothing of the
\* call runs after a panic
report(st, diagnostic) ==
    IF st.panicked THEN st
    ELSE LET r == ModuleLoader_report(st, diagnostic)
         IN  IF r.is_ok THEN r.st ELSE [st EXCEPT !.panicked = TRUE]

\* ModuleStore::get(name): a lookup, nothing is loaded
ModuleStore_get(cache, name) ==
    IF name \in DOMAIN cache THEN cache[name] ELSE None

\* ModuleStore::insert(module)
ModuleStore_insert(cache, module) ==
    [cache EXCEPT ![module.name] = Some(module)]

\* the names of the registered modules
Registered(cache) == {n \in DOMAIN cache : is_some(cache[n])}

(***************************************************************************)
(* Identifiers                                                             *)
(***************************************************************************)
\* Identifier::validate(top, loader, case): a name that does not follow the
\* expected case convention is reported as a warning
Identifier_validate(name, span, top, st, case) ==
    IF PreferredCase(name, case)
    THEN st
    ELSE report(st, identifier_not_preferred_case(
                        unwrap_or_default(top.file_id), span, name, case))

\* QualifiedIdentifier::validate(top, loader): module part, then member part
QualifiedIdentifier_validate(id_ref, top, st) ==
    Identifier_validate(unwrap(id_ref.member), id_ref.span, top,
        Identifier_validate(id_ref.module, id_ref.span, top, st, "Module"),
        "ImportedMember")

(***************************************************************************)
(* Lookup                                                                  *)
(***************************************************************************)
\* Iterator::rfind in place of find: the last definition with the name
find_definition_last(definitions, name, i) ==
    LET hits == {k \in i..Len(definitions) : definitions[k].name = name}
    IN  IF hits = {} THEN None
        ELSE Some(definitions[CHOOSE k \in hits : \A h \in hits : h <= k])

RECURSIVE find_definition(_, _, _)
\* Iterator::find over definitions[i..]: the first definition with the name
find_definition(definitions, name, i) ==
    IF i > Len(definitions) THEN None
    ELSE IF definitions[i].name = name THEN Some(definitions[i])
    ELSE find_definition(definitions, name, i + 1)

Module_resolve_local(self, name) ==
    find_definition(self.body.definitions, name, 1)

\* ModuleBody::get_definition
ModuleBody_get_definition(self, name) ==
    find_definition(self.definitions, name, 1)

(***************************************************************************)
(* Import accessors                                                        *)
(***************************************************************************)
\* the match of imported_modules: Module(v) => v.name(), Member(v) => v.module()
Import_module_name(imp) == imp.module

\* a QualifiedIdentifier as a value: module and member
QualifiedIdentifier_value(imp) == <<imp.module, unwrap(imp.member)>>

\* ImportStatement::imported_modules leaving the member imports out
ImportStatement_imported_modules_module_only(self) ==
    {Import_module_name(self.imports[i]) :
        i \in {k \in 1..Len(self.imports) : self.imports[k].variant = "Module"}}

\* ImportStatement::imported_modules: map and collect into a HashSet
ImportStatement_imported_modules(self) ==
    {Import_module_name(self.imports[i]) : i \in 1..Len(self.imports)}

\* ImportStatement::imported_types: filter_map on Import::Member, collected
ImportStatement_imported_types(self) ==
    {QualifiedIdentifier_value(self.imports[i]) :
        i \in {k \in 1..Len(self.imports) : self.imports[k].variant = "Member"}}

\* HashMap::insert that keeps the value an occupied key already has
HashMap_insert_keep(map, k, v) ==
    [x \in DOMAIN map \cup {k} |-> IF x \in DOMAIN map THEN map[x] ELSE v]

\* HashMap::insert: the value of an occupied key is replaced
HashMap_insert(map, k, v) ==
    [x \in DOMAIN map \cup {k} |-> IF x = k THEN v ELSE map[x]]

RECURSIVE HashMap_extend(_, _, _)
\* HashMap::from_iter / Extend: insert the pairs[i..] in iteration order
HashMap_extend(map, pairs, i) ==
    IF i > Len(pairs) THEN map
    ELSE HashMap_extend(HashMap_insert(map, pairs[i][1], pairs[i][2]), pairs, i + 1)

\* ImportStatement::imported_module_versions
ImportStatement_imported_module_versions(self) ==
    HashMap_extend(<<>>,
        [i \in 1..Len(self.imports) |->
            IF self.imports[i].variant = "Module"
            THEN <<self.imports[i].module, self.imports[i].version_uri>>
            ELSE <<self.imports[i].module, None>>],
        1)

\* the entries of a map as a sequence, in some iteration order; keys are
\* unique in a map, so the order does not show in a map collected from it
RECURSIVE HashMap_iter(_)
HashMap_iter(map) ==
    IF DOMAIN map = {} THEN <<>>
    ELSE LET k == CHOOSE x \in DOMAIN map : TRUE
         IN  <<<<k, map[k]>>>>
             \o HashMap_iter([x \in DOMAIN map \ {k} |-> map[x]])

\* ModuleBody::imported_modules: flat_map over the statements, collected
ModuleBody_imported_modules(self) ==
    UNION {ImportStatement_imported_modules(self.imports[s]) :
              s \in 1..Len(self.imports)}

RECURSIVE ModuleBody_imported_module_versions_from(_, _, _)
\* the statements s.. flat-mapped into the map being collected
ModuleBody_imported_module_versions_from(self, s, map) ==
    IF s > Len(self.imports) THEN map
    ELSE ModuleBody_imported_module_versions_from(self, s + 1,
             HashMap_extend(map,
                 HashMap_iter(ImportStatement_imported_module_versions(
                                  self.imports[s])),
                 1))

\* ModuleBody::imported_module_versions
ModuleBody_imported_module_versions(self) ==
    ModuleBody_imported_module_versions_from(self, 1, <<>>)

\* ModuleBody::imported_types
ModuleBody_imported_types(self) ==
    UNION {ImportStatement_imported_types(self.imports[s]) :
              s \in 1..Len(self.imports)}

\* delegate!(pub imported_modules, .., body) and its two neighbours
Module_imported_modules(self) == ModuleBody_imported_modules(self.body)

Module_imported_module_versions(self) ==
    ModuleBody_imported_module_versions(self.body)

Module_imported_types(self) == ModuleBody_imported_types(self.body)

(***************************************************************************)
(* Import validation                                                       *)
(***************************************************************************)
\* the match with the arm (None, _) narrowed to (None, None)
version_uri_match_unexpected(module_ref, actual_module, top, st) ==
    IF ~is_some(module_ref.version_uri)
    THEN IF is_some(actual_module.version_uri)
         THEN report(st, module_version_mismatch(
                  unwrap_or_default(top.file_id),
                  module_ref.span,
                  "",
                  unwrap_or_default(actual_module.file_id),
                  unwrap(actual_module.version_uri).span,
                  unwrap(actual_module.version_uri).value))
         ELSE st
    ELSE LET expected == unwrap(module_ref.version_uri)
         IN  IF is_some(actual_module.version_uri)
             THEN LET actual == unwrap(actual_module.version_uri)
                  IN  IF ~HeaderValue_eq(actual, expected)
                      THEN report(st, module_version_mismatch(
                               unwrap_or_default(top.file_id),
                               expected.span,
                               expected.value,
                               unwrap_or_default(actual_module.file_id),
                               actual.span,
                               actual.value))
                      ELSE st
             ELSE report(st, module_version_not_found(
                      unwrap_or_default(top.file_id),
                      module_ref.span,
                      expected.value,
                      unwrap_or_default(actual_module.file_id),
                      actual_module.span,
                      <<actual_module.name>>))

\* the match with the two locations of module_version_mismatch exchanged
version_uri_match_swapped(module_ref, actual_module, top, st) ==
    IF ~is_some(module_ref.version_uri)
    THEN st
    ELSE LET expected == unwrap(module_ref.version_uri)
         IN  IF is_some(actual_module.version_uri)
             THEN LET actual == unwrap(actual_module.version_uri)
                  IN  IF ~HeaderValue_eq(actual, expected)
                      THEN report(st, module_version_mismatch(
                               unwrap_or_default(actual_module.file_id),
                               actual.span,
                               actual.value,
                               unwrap_or_default(top.file_id),
                               expected.span,
                               expected.value))
                      ELSE st
             ELSE report(st, module_version_not_found(
                      unwrap_or_default(top.file_id),
                      module_ref.span,
                      expected.value,
                      unwrap_or_default(actual_module.file_id),
                      actual_module.span,
                      <<actual_module.name>>))

\* the match with the arm (Some(expected), None) accepted silently
version_uri_match_lenient(module_ref, actual_module, top, st) ==
    IF ~is_some(module_ref.version_uri)
    THEN st
    ELSE LET expected == unwrap(module_ref.version_uri)
         IN  IF is_some(actual_module.version_uri)
             THEN LET actual == unwrap(actual_module.version_uri)
                  IN  IF ~HeaderValue_eq(actual, expected)
                      THEN report(st, module_version_mismatch(
                               unwrap_or_default(top.file_id),
                               expected.span,
                               expected.value,
                               unwrap_or_default(actual_module.file_id),
                               actual.span,
                               actual.value))
                      ELSE st
             ELSE st

\* the match on (module_ref.version_uri(), actual_module.version_uri())
version_uri_match(module_ref, actual_module, top, st) ==
    IF ~is_some(module_ref.version_uri)
    THEN st
    ELSE LET expected == unwrap(module_ref.version_uri)
         IN  IF is_some(actual_module.version_uri)
             THEN LET actual == unwrap(actual_module.version_uri)
                  IN  IF ~HeaderValue_eq(actual, expected)
                      THEN report(st, module_version_mismatch(
                               unwrap_or_default(top.file_id),
                               expected.span,
                               expected.value,
                               unwrap_or_default(actual_module.file_id),
                               actual.span,
                               actual.value))
                      ELSE st
             ELSE report(st, module_version_not_found(
                      unwrap_or_default(top.file_id),
                      module_ref.span,
                      expected.value,
                      unwrap_or_default(actual_module.file_id),
                      actual_module.span,
                      <<actual_module.name>>))

\* the arm Import::Module registering a missing module on demand
Import_Module_validate_loading(module_ref, top, st) ==
    LET st1 == Identifier_validate(module_ref.module, module_ref.span, top, st,
                                   "Module")
        found == ModuleStore_get(st1.cache, module_ref.module)
    IN  IF is_some(found)
        THEN version_uri_match(module_ref, unwrap(found), top, st1)
        ELSE report([st1 EXCEPT !.cache = ModuleStore_insert(
                                             @, Module_empty(module_ref.module))],
                    imported_module_not_found(
                        unwrap_or_default(top.file_id), module_ref.span,
                        <<module_ref.module>>))

\* the arm Import::Module(module_ref) of the loop of ImportStatement::validate
\* the arm Import::Module going on into the import statements of the module
\* it has found
Import_Module_validate_transitive(module_ref, top, st) ==
    LET st1 == Identifier_validate(module_ref.module, module_ref.span, top, st,
                                   "Module")
        found == ModuleStore_get(st1.cache, module_ref.module)
        inner(m) ==
            IF m.body.imports = <<>> THEN <<>>
            ELSE LET import == m.body.imports[1].imports[1]
                 IN  IF is_some(ModuleStore_get(st1.cache, import.module))
                     THEN <<>>
                     ELSE <<imported_module_not_found(
                                unwrap_or_default(m.file_id), import.span,
                                <<import.module>>)>>
    IN  IF is_some(found)
        THEN LET st2 == version_uri_match(module_ref, unwrap(found), top, st1)
             IN  [st2 EXCEPT !.loader = @ \o inner(unwrap(found))]
        ELSE report(st1, imported_module_not_found(
                 unwrap_or_default(top.file_id), module_ref.span,
                 <<module_ref.module>>))

Import_Module_validate(module_ref, top, st) ==
    LET st1 == Identifier_validate(module_ref.module, module_ref.span, top, st,
                                   "Module")
        found == ModuleStore_get(st1.cache, module_ref.module)
    IN  IF is_some(found)
        THEN version_uri_match(module_ref, unwrap(found), top, st1)
        ELSE report(st1, imported_module_not_found(
                 unwrap_or_default(top.file_id), module_ref.span,
                 <<module_ref.module>>))

\* the arm Import::Member with the test of resolve_local inverted
Import_Member_validate_inverted(id_ref, top, st) ==
    LET st1 == QualifiedIdentifier_validate(id_ref, top, st)
        found == ModuleStore_get(st1.cache, id_ref.module)
    IN  IF is_some(found)
        THEN IF is_some(Module_resolve_local(unwrap(found), unwrap(id_ref.member)))
             THEN report(st1, definition_not_found(
                      unwrap_or_default(top.file_id), id_ref.span,
                      <<id_ref.module, unwrap(id_ref.member)>>))
             ELSE st1
        ELSE report(st1, imported_module_not_found(
                 unwrap_or_default(top.file_id), id_ref.span,
                 <<id_ref.module, unwrap(id_ref.member)>>))

\* the arm Import::Member(id_ref) of the loop of ImportStatement::validate
Import_Member_validate(id_ref, top, st) ==
    LET st1 == QualifiedIdentifier_validate(id_ref, top, st)
        found == ModuleStore_get(st1.cache, id_ref.module)
    IN  IF is_some(found)
        THEN IF ~is_some(Module_resolve_local(unwrap(found), unwrap(id_ref.member)))
             THEN report(st1, definition_not_found(
                      unwrap_or_default(top.file_id), id_ref.span,
                      <<id_ref.module, unwrap(id_ref.member)>>))
             ELSE st1
        ELSE report(st1, imported_module_not_found(
                 unwrap_or_default(top.file_id), id_ref.span,
                 <<id_ref.module, unwrap(id_ref.member)>>))

\* the body of the loop of ImportStatement::validate, for one import
Import_validate(import, top, st) ==
    IF import.variant = "Module"
    THEN Import_Module_validate(import, top, st)
    ELSE Import_Member_validate(import, top, st)

RECURSIVE ImportStatement_validate_from_break(_, _, _, _)
\* the loop leaving the statement at the first import whose module is missing
ImportStatement_validate_from_break(self, top, st, i) ==
    IF i > Len(self.imports) THEN st
    ELSE IF ~is_some(ModuleStore_get(st.cache, self.imports[i].module))
    THEN Import_validate(self.imports[i], top, st)
    ELSE ImportStatement_validate_from_break(
             self, top, Import_validate(self.imports[i], top, st), i + 1)

RECURSIVE ImportStatement_validate_from(_, _, _, _)
\* for import in self.imports(), from the i-th on
ImportStatement_validate_from(self, top, st, i) ==
    IF i > Len(self.imports) THEN st
    ELSE ImportStatement_validate_from(
             self, top, Import_validate(self.imports[i], top, st), i + 1)

ImportStatement_validate(self, top, st) ==
    ImportStatement_validate_from(self, top, st, 1)

(***************************************************************************)
(* Annotations and definitions                                             *)
(***************************************************************************)
RECURSIVE report_times(_, _, _)
report_times(st, diagnostic, n) ==
    IF n = 0 THEN st ELSE report_times(report(st, diagnostic), diagnostic, n - 1)

\* Ok(b) of a Result<bool, Error>
OkBool(b) == [is_ok |-> TRUE, value |-> b]

\* Constraint::is_valid: the verdict of the constraint's own validation
Constraint_is_valid(self, check_constraints) == OkBool(self.problems = 0)

\* AnnotationProperty::is_complete
AnnotationProperty_is_complete(self) == OkBool(TRUE)

\* AnnotationProperty::is_valid asking for a value that is a text
AnnotationProperty_is_valid_typed(self, check_constraints) ==
    OkBool(self.value = Some("label"))

\* AnnotationProperty::is_valid: conformance of the value is not checked
AnnotationProperty_is_valid(self, check_constraints) == OkBool(TRUE)

\* Annotation::is_valid asking the constraint whatever the flag says
Annotation_is_valid_unconditional(self, check_constraints) ==
    IF self.variant = "Property"
    THEN AnnotationProperty_is_valid(self, check_constraints)
    ELSE Constraint_is_valid(self, check_constraints)

\* Annotation::is_valid: match (self, check_constraints)
Annotation_is_valid(self, check_constraints) ==
    CASE self.variant = "Property" ->
             AnnotationProperty_is_valid(self, check_constraints)
      [] self.variant = "Constraint" /\ check_constraints ->
             Constraint_is_valid(self, check_constraints)
      [] OTHER -> OkBool(TRUE)

\* AnnotationOnlyBody::is_valid: every annotation, with the same flag
AnnotationOnlyBody_is_valid(self, check_constraints) ==
    LET failed == [i \in 1..Len(self.annotations) |->
                      Annotation_is_valid(self.annotations[i], check_constraints)]
    IN  IF \E i \in 1..Len(failed) : ~failed[i].is_ok
        THEN failed[CHOOSE i \in 1..Len(failed) :
                        /\ ~failed[i].is_ok
                        /\ \A j \in 1..(i - 1) : failed[j].is_ok]
        ELSE OkBool(\A i \in 1..Len(failed) : failed[i].value)

\* Annotation::validate: what the annotation is not valid for is reported; a
\* property is not checked for conformance, a constraint only when
\* check_constraints is set
Annotation_validate(ann, top, st, check_constraints) ==
    IF ~Annotation_is_valid(ann, check_constraints).value
    THEN report_times(st, constraint_diagnostic(
                              unwrap_or_default(top.file_id), ann.span),
                      ann.problems)
    ELSE st

RECURSIVE annotations_validate(_, _, _, _, _)
\* annotations.for_each(|ann| ann.validate(..)), from the i-th on
annotations_validate(annotations, top, st, check_constraints, i) ==
    IF i > Len(annotations) THEN st
    ELSE annotations_validate(annotations, top,
             Annotation_validate(annotations[i], top, st, check_constraints),
             check_constraints, i + 1)

\* impl Validate for RdfDef: the name, then the annotation-only body
RdfDef_validate(self, top, st, check_constraints) ==
    annotations_validate(unwrap(self.body).annotations, top,
        Identifier_validate(self.name, self.span, top, st, "RdfDefinition"),
        check_constraints, 1)

\* Definition::validate: the name's case convention, then the body if any
Definition_validate(self, top, st, check_constraints) ==
    IF self.variant = "Rdf"
    THEN RdfDef_validate(self, top, st, check_constraints)
    ELSE LET st1 == Identifier_validate(self.name, self.span, top, st,
                                        "TypeDefinition")
         IN  IF is_some(self.body)
             THEN annotations_validate(unwrap(self.body).annotations, top, st1,
                                       check_constraints, 1)
             ELSE st1

\* a member of a body; `is_complete` is what the rule of its variant says
Member(name, is_complete) == [name |-> name, is_complete |-> is_complete]

\* EntityGroup { members }
EntityGroup(members) == [members |-> members]

\* EntityGroup::is_complete: every member of the group is complete
EntityGroup_is_complete(self) ==
    \A i \in 1..Len(self.members) : self.members[i].is_complete

\* EntityBody::is_complete: every member and every group is complete
EntityBody_is_complete(self) ==
    /\ \A i \in 1..Len(self.members) : self.members[i].is_complete
    /\ \A i \in 1..Len(self.groups) : EntityGroup_is_complete(self.groups[i])

\* EntityDef::set_body
EntityDef_set_body(self, body) == [self EXCEPT !.body = Some(body)]

\* EntityDef::is_complete with the test of the body inverted
EntityDef_is_complete_inverted(self) == ~is_some(self.body)

\* EntityDef::is_complete
EntityDef_is_complete(self) == is_some(self.body)

\* RdfDef counted incomplete when its body holds no annotation
RdfDef_is_incomplete_empty(self) == unwrap(self.body).annotations = <<>>

\* impl_maybe_incomplete_for!(RdfDef; always false)
RdfDef_is_incomplete(self) == FALSE

\* MaybeIncomplete for Definition: by variant
Definition_is_incomplete(self) ==
    CASE self.variant = "Entity" -> ~EntityDef_is_complete(self)
      [] self.variant = "Rdf"    -> RdfDef_is_incomplete(self)
      [] self.variant \in {"Structure", "Event"} ->
             \/ ~is_some(self.body)
             \/ ~EntityBody_is_complete(unwrap(self.body))
      [] OTHER                   -> ~is_some(self.body)

\* the body counted incomplete also when an import names a module that the
\* store does not hold
ModuleBody_is_incomplete_resolving(self, top, cache) ==
    \/ \E i \in 1..Len(self.definitions) : Definition_is_incomplete(self.definitions[i])
    \/ \E s \in 1..Len(self.imports) : \E i \in 1..Len(self.imports[s].imports) :
          ~is_some(ModuleStore_get(cache, self.imports[s].imports[i].module))

\* the body counted incomplete when all of its definitions are
ModuleBody_is_incomplete_all(self, top, cache) ==
    \A i \in 1..Len(self.definitions) : Definition_is_incomplete(self.definitions[i])

\* impl_maybe_incomplete_for!(ModuleBody; over definitions)
ModuleBody_is_incomplete(self, top, cache) ==
    \E i \in 1..Len(self.definitions) : Definition_is_incomplete(self.definitions[i])

Module_is_incomplete(self, cache) ==
    IF ~Module_is_library_module(self)
    THEN ModuleBody_is_incomplete(self.body, self, cache)
    ELSE FALSE

(***************************************************************************)
(* Module validation                                                       *)
(***************************************************************************)
RECURSIVE imports_validate(_, _, _, _)
\* self.imports().for_each(|imp| imp.validate(..)), from the i-th statement on
imports_validate(imports, top, st, i) ==
    IF i > Len(imports) THEN st
    ELSE imports_validate(imports, top,
             ImportStatement_validate(imports[i], top, st), i + 1)

RECURSIVE definitions_validate(_, _, _, _, _)
\* self.definitions().for_each(|def| def.validate(..)), from the i-th on
definitions_validate(definitions, top, st, check_constraints, i) ==
    IF i > Len(definitions) THEN st
    ELSE definitions_validate(definitions, top,
             Definition_validate(definitions[i], top, st, check_constraints),
             check_constraints, i + 1)

\* ModuleBody::validate giving up after the imports when one was reported
ModuleBody_validate_stops(self, top, st, check_constraints) ==
    LET st1 == imports_validate(self.imports, top, st, 1)
        st2 == annotations_validate(self.annotations, top, st1, check_constraints, 1)
    IN  IF st1.loader # st.loader
        THEN st1
        ELSE definitions_validate(self.definitions, top, st2, check_constraints, 1)

\* ModuleBody::validate with the definitions walked before the imports
ModuleBody_validate_definitions_first(self, top, st, check_constraints) ==
    LET st1 == definitions_validate(self.definitions, top, st, check_constraints, 1)
        st2 == imports_validate(self.imports, top, st1, 1)
    IN  annotations_validate(self.annotations, top, st2, check_constraints, 1)

ModuleBody_validate(self, top, st, check_constraints) ==
    LET st1 == imports_validate(self.imports, top, st, 1)
        st2 == annotations_validate(self.annotations, top, st1, check_constraints, 1)
    IN  definitions_validate(self.definitions, top, st2, check_constraints, 1)

\* Module::validate with the completeness test inverted
Module_validate_checks_inverted(self, st, check_constraints) ==
    LET st1 == Identifier_validate(self.name, self.span, self, st, "Module")
        st2 == IF is_some(self.version_info)
                  /\ unwrap(self.version_info).value = ""
               THEN report(st1, module_version_info_empty(
                                    unwrap_or_default(self.file_id),
                                    unwrap(self.version_info).span))
               ELSE st1
        st3 == ModuleBody_validate(self.body, self, st2, check_constraints)
    IN  IF ~Module_is_incomplete(self, st3.cache)
        THEN report(st3, module_is_incomplete(
                             unwrap_or_default(self.file_id), self.span,
                             <<self.name>>))
        ELSE st3

\* Module::validate returning right after the version-info warning
Module_validate_checks_warning_returns(self, st, check_constraints) ==
    LET st1 == Identifier_validate(self.name, self.span, self, st, "Module")
    IN  IF is_some(self.version_info) /\ unwrap(self.version_info).value = ""
        THEN report(st1, module_version_info_empty(
                             unwrap_or_default(self.file_id),
                             unwrap(self.version_info).span))
        ELSE LET st3 == ModuleBody_validate(self.body, self, st1, check_constraints)
             IN  IF Module_is_incomplete(self, st3.cache)
                 THEN report(st3, module_is_incomplete(
                                      unwrap_or_default(self.file_id), self.span,
                                      <<self.name>>))
                 ELSE st3

\* Module::validate, the block taken for a module that is not a library module
Module_validate_checks(self, st, check_constraints) ==
    LET st1 == Identifier_validate(self.name, self.span, self, st, "Module")
        st2 == IF is_some(self.version_info)
                  /\ unwrap(self.version_info).value = ""
               THEN report(st1, module_version_info_empty(
                                    unwrap_or_default(self.file_id),
                                    unwrap(self.version_info).span))
               ELSE st1
        st3 == ModuleBody_validate(self.body, self, st2, check_constraints)
    IN  IF Module_is_incomplete(self, st3.cache)
        THEN report(st3, module_is_incomplete(
                             unwrap_or_default(self.file_id), self.span,
                             <<self.name>>))
        ELSE st3

\* Module::validate without the library-module test
Module_validate_unguarded(self, st, check_constraints) ==
    Module_validate_checks(self, st, check_constraints)

\* Module::validate doing its checks only while nothing has been reported
Module_validate_first_only(self, st, check_constraints) ==
    IF ~Module_is_library_module(self) /\ st.loader = <<>>
    THEN Module_validate_checks(self, st, check_constraints)
    ELSE st

Module_validate(self, st, check_constraints) ==
    IF ~Module_is_library_module(self)
    THEN Module_validate_checks(self, st, check_constraints)
    ELSE st

(***************************************************************************)
(* Construction                                                            *)
(***************************************************************************)
Ok == [is_ok |-> TRUE, err |-> None]

Err(e) == [is_ok |-> FALSE, err |-> Some(e)]

\* add_to_definitions pushing the definition before the library test
ModuleBody_add_to_definitions_push_first(self, definition) ==
    IF ~self.is_library /\ definition.variant \in {"Rdf", "TypeClass"}
    THEN [body |-> [self EXCEPT !.definitions = Append(@, definition)],
          result |-> Err(library_definition_not_allowed(
                             unwrap_or_default(self.file_id), definition.span,
                             <<definition.name>>))]
    ELSE [body |-> [self EXCEPT !.definitions = Append(@, definition)],
          result |-> Ok]

\* returns the body after the call and the Result of the call
ModuleBody_add_to_definitions(self, definition) ==
    IF ~self.is_library /\ definition.variant \in {"Rdf", "TypeClass"}
    THEN [body |-> self,
          result |-> Err(library_definition_not_allowed(
                             unwrap_or_default(self.file_id), definition.span,
                             <<definition.name>>))]
    ELSE [body |-> [self EXCEPT !.definitions = Append(@, definition)],
          result |-> Ok]

RECURSIVE ModuleBody_extend_definitions_from(_, _, _)
\* the loop of extend_definitions from the i-th definition on: the first Err
\* is returned at once
ModuleBody_extend_definitions_from(self, extension, i) ==
    IF i > Len(extension) THEN [body |-> self, result |-> Ok]
    ELSE LET r == ModuleBody_add_to_definitions(self, extension[i])
         IN  IF r.result.is_ok
             THEN ModuleBody_extend_definitions_from(r.body, extension, i + 1)
             ELSE r

\* extend_definitions leaving the body as it was when a definition is rejected
ModuleBody_extend_definitions_all_or_nothing(self, extension) ==
    LET r == ModuleBody_extend_definitions_from(self, extension, 1)
    IN  IF r.result.is_ok THEN r ELSE [body |-> self, result |-> r.result]

\* ModuleBody::extend_definitions
ModuleBody_extend_definitions(self, extension) ==
    ModuleBody_extend_definitions_from(self, extension, 1)

\* HasBody::set_body for Module
Module_set_body(self, body) ==
    [self EXCEPT !.body = ModuleBody_set_library_status(
                              [body EXCEPT !.file_id = self.file_id], self.name)]

\* HasName::set_name for Module: the name is replaced, nothing else
Module_set_name(self, name) == [self EXCEPT !.name = name]

(***************************************************************************)
(* What the parser and the loader hand in                                  *)
(***************************************************************************)
\* module names: "rdfs" is a library module, "M3" is not in module case
TopNames == {"m1", "rdfs"}

LoadableNames == {"m2"}

ImportNames == {"m2", "M3"}

\* "Bad" is the name of a module that is not a library module and is not in
\* module case
WalkNames == {"m1", "Bad"}

ModuleNames == TopNames \cup WalkNames \cup LoadableNames \cup ImportNames

VersionUris == {"https://x/v1", "https://x/v2"}

VersionInfos == {"", "1.0"}

\* byte ranges the parser gives to the nodes of a file
ModuleSpan == Span(0, 999)

VersionInfoSpan == Span(20, 29)

VersionUriSpan == Span(30, 39)

ImportSpan(s, i) == Span(100 * s + 10 * i, 100 * s + 10 * i + 9)

ImportVersionUriSpan(s, i) == Span(100 * s + 10 * i + 5, 100 * s + 10 * i + 9)

AnnotationSpan(k) == Span(500 + 10 * k, 500 + 10 * k + 9)

DefinitionSpan(k) == Span(700 + 10 * k, 700 + 10 * k + 9)

\* the imports that can stand at place i of statement s
ImportInputs(s, i) ==
    {ModuleImport(ImportSpan(s, i), n, None) : n \in ImportNames}
    \cup {ModuleImport(ImportSpan(s, i), n,
                       Some(HeaderValue(Some(ImportVersionUriSpan(s, i)), u))) :
             n \in LoadableNames, u \in VersionUris}
    \cup {MemberImport(ImportSpan(s, i), n, "Foo") : n \in LoadableNames}

\* import statements of one or two imports
StatementInputs(s, room) ==
    {ImportStatement_new(<<a>>) : a \in ImportInputs(s, 1)}
    \cup IF room >= 2
         THEN {ImportStatement_new(<<a, b>>) :
                  a \in ImportInputs(s, 1), b \in ImportInputs(s, 2)}
         ELSE {}

AnnotationInputs(k) ==
    {AnnotationProperty(AnnotationSpan(k), <<"skos", "prefLabel">>, "label"),
     AnnotationConstraint(AnnotationSpan(k), 1)}

DefinitionInputs(k) ==
    {Definition("Entity", DefinitionSpan(k), "Foo", None),
     Definition("Entity", DefinitionSpan(k), "Foo", Some(EmptyBody)),
     Definition("Structure", DefinitionSpan(k), "bar", None),
     Definition("Rdf", DefinitionSpan(k), "bar", Some(EmptyBody)),
     Definition("TypeClass", DefinitionSpan(k), "Foo", Some(EmptyBody))}

\* the bodies a definition can be given: empty, or with one member that is
\* complete or not
BodyInputs ==
    {EmptyBody} \cup {[EmptyBody EXCEPT !.members = <<Member("x", c)>>] :
                         c \in BOOLEAN}

\* a module as the parser returns it before its body is filled
ParsedModule(name, file_id) ==
    Module_with_source_span(Module_set_file_id(Module_empty(name), file_id),
                            ModuleSpan)

\* the modules the loader can register: with or without a version URI, with
\* or without a definition Foo
LoadableModules ==
    LET bare == {ParsedModule(n, 2) : n \in LoadableNames}
        versioned == bare \cup
            {Module_with_version_uri(m, HeaderValue(Some(VersionUriSpan), u)) :
                m \in bare, u \in VersionUris}
    IN  versioned \cup
        {[m EXCEPT !.body = ModuleBody_add_to_definitions(
                                @, Definition("Entity", DefinitionSpan(1), "Foo",
                                              Some(EmptyBody))).body] :
            m \in versioned}

\* the imports of a whole file: those above and an import of the module m1,
\* which is the file itself or closes a cycle through a registered module
WalkImportInputs(s, i) ==
    ImportInputs(s, i) \cup {ModuleImport(ImportSpan(s, i), "m1", None)}

\* a body holding one constraint
ConstraintBody(k) ==
    [EmptyBody EXCEPT !.annotations =
        <<AnnotationConstraint(Span(700 + 10 * k + 5, 700 + 10 * k + 9), 1)>>]

WalkDefinitionInputs(k) ==
    {Definition("Entity", DefinitionSpan(k), "Foo", None),
     Definition("Entity", DefinitionSpan(k), "Foo", Some(ConstraintBody(k))),
     Definition("Structure", DefinitionSpan(k), "bar", None)}

\* whole files as the parser returns them: a header, one import statement of
\* two imports, one annotation and one definition
WalkModules ==
    {[m EXCEPT !.version_info = v,
               !.body = ModuleBody_add_to_definitions(
                            ModuleBody_add_to_annotations(
                                ModuleBody_add_to_imports(
                                    @, ImportStatement_new(<<a, b>>)),
                                ann),
                            def).body] :
        m \in {ParsedModule(n, 1) : n \in WalkNames},
        v \in {None, Some(HeaderValue(Some(VersionInfoSpan), ""))},
        a \in WalkImportInputs(1, 1), b \in WalkImportInputs(1, 2),
        ann \in AnnotationInputs(1), def \in WalkDefinitionInputs(1)}

\* registered modules that import in their turn: m1, closing a cycle, or M3,
\* which is never registered
ImportingModules ==
    {[m EXCEPT !.body = ModuleBody_add_to_imports(
                            @, ImportStatement_new(<<ModuleImport(ImportSpan(1, 1), n, None)>>))] :
        m \in {ParsedModule(n, 2) : n \in LoadableNames}, n \in {"m1", "M3"}}

\* property annotations whose name is defined in the module, in the module
\* m2, or nowhere, with a text or a number as value
PropertyInputs(k) ==
    {AnnotationProperty(AnnotationSpan(k), n, v) :
        n \in {<<"Foo">>, <<"m2", "Foo">>, <<"dc", "title">>},
        v \in {"label", "42"}}

\* entity bodies: with or without a member, with or without a group of one
\* member, each member complete or not
EntityBodyInputs ==
    {EmptyBody}
    \cup {[EmptyBody EXCEPT !.members = <<Member("x", c)>>] : c \in BOOLEAN}
    \cup {[EmptyBody EXCEPT !.groups = <<EntityGroup(<<Member("y", c)>>)>>] :
             c \in BOOLEAN}

\* annotation-only bodies: empty, or with a property or a constraint
AnnotationOnlyBodyInputs(k) ==
    {EmptyBody, ConstraintBody(k)}
    \cup {[EmptyBody EXCEPT !.annotations =
              <<AnnotationProperty(Span(700 + 10 * k + 5, 700 + 10 * k + 9),
                                   <<"dc", "title">>, "42")>>]}

DetailedDefinitionInputs(k) ==
    {Definition("Entity", DefinitionSpan(k), "Foo", None),
     Definition("Structure", DefinitionSpan(k), "bar", None)}
    \cup {Definition("Entity", DefinitionSpan(k), "Foo", Some(b)) :
             b \in EntityBodyInputs}
    \cup {Definition("Rdf", DefinitionSpan(k), "bar", Some(b)) :
             b \in AnnotationOnlyBodyInputs(k)}

\* a module made with Module::new from a body that was filled beforehand,
\* under the library status of the name `built_as`
BuiltModule(name, built_as, definitions, annotations) ==
    LET b0 == ModuleBody_set_library_status(ModuleBody_default, built_as)
        b1 == ModuleBody_extend_definitions(b0, definitions).body
        b2 == IF annotations = <<>> THEN b1
              ELSE ModuleBody_add_to_annotations(b1, annotations[1])
    IN  Module_with_source_span(
            Module_set_file_id(Module_new(name, b2), 1), ModuleSpan)

\* modules with one or two detailed definitions, and modules with one
\* property annotation
DetailedModules ==
    {BuiltModule(n, l, ds, <<>>) :
        n \in TopNames, l \in TopNames,
        ds \in {<<a>> : a \in DetailedDefinitionInputs(1)}
               \cup {<<a, b>> : a \in DetailedDefinitionInputs(1),
                                b \in DetailedDefinitionInputs(2)}}
    \cup {BuiltModule(n, n, ds, <<ann>>) :
             n \in TopNames,
             ds \in {<<>>, <<Definition("Entity", DefinitionSpan(1), "Foo",
                                        Some(EmptyBody))>>},
             ann \in PropertyInputs(1)}

NodeCount(m) ==
    LET n == Len(m.body.imports)
        ImportCount[i \in 0..n] ==
            IF i = 0 THEN 0 ELSE ImportCount[i - 1] + Len(m.body.imports[i].imports)
    IN  ImportCount[n] + Len(m.body.annotations) + Len(m.body.definitions)

(***************************************************************************)
(* State machine                                                           *)
(***************************************************************************)
Call(op, arg, ret) == [op |-> op, arg |-> <<arg>>, ret |-> <<ret>>]

Init ==
    /\ parsed \in {ParsedModule(n, 1) : n \in TopNames}
    /\ store = [n \in ModuleNames |-> None]
    /\ reporter = <<>>
    /\ validations = 0
    /\ panicked = FALSE
    /\ detached = ModuleBody_default
    /\ last = Call("new", parsed.name, parsed.name)

\* parser: module.body_mut().add_to_imports(stmt)
add_to_imports ==
    /\ validations = 0
    /\ NodeCount(parsed) < MaxNodes
    /\ \E stmt \in StatementInputs(Len(parsed.body.imports) + 1,
                                   MaxNodes - NodeCount(parsed)) :
          /\ parsed' = [parsed EXCEPT !.body = ModuleBody_add_to_imports(@, stmt)]
          /\ last' = Call("add_to_imports", stmt, TRUE)
    /\ UNCHANGED <<store, reporter, validations, panicked, detached>>

\* parser: module.body_mut().add_to_annotations(ann)
add_to_annotations ==
    /\ validations = 0
    /\ NodeCount(parsed) < MaxNodes
    /\ \E ann \in AnnotationInputs(Len(parsed.body.annotations) + 1) :
          /\ parsed' = [parsed EXCEPT !.body = ModuleBody_add_to_annotations(@, ann)]
          /\ last' = Call("add_to_annotations", ann, TRUE)
    /\ UNCHANGED <<store, reporter, validations, panicked, detached>>

\* parser: module.body_mut().add_to_definitions(definition)
add_to_definitions ==
    /\ validations = 0
    /\ NodeCount(parsed) < MaxNodes
    /\ \E definition \in DefinitionInputs(Len(parsed.body.definitions) + 1) :
          LET r == ModuleBody_add_to_definitions(parsed.body, definition)
          IN  /\ parsed' = [parsed EXCEPT !.body = r.body]
              /\ last' = Call("add_to_definitions", definition, r.result)
    /\ UNCHANGED <<store, reporter, validations, panicked, detached>>

\* parser: module.set_version_info(..)
set_version_info ==
    /\ validations = 0
    /\ ~is_some(parsed.version_info)
    /\ \E v \in VersionInfos :
          /\ parsed' = Module_set_version_info(parsed, HeaderValue(Some(VersionInfoSpan), v))
          /\ last' = Call("set_version_info", v, TRUE)
    /\ UNCHANGED <<store, reporter, validations, panicked, detached>>

\* loader: cache.insert(module), once per module name
cache_insert ==
    /\ validations = 0
    /\ \E m \in LoadableModules :
          /\ ~is_some(ModuleStore_get(store, m.name))
          /\ store' = ModuleStore_insert(store, m)
          /\ last' = Call("insert", m.name, TRUE)
    /\ UNCHANGED <<parsed, reporter, validations, panicked, detached>>

\* what parsed.validate(&store, &loader, check_constraints) leaves behind
validate_call(check_constraints, fails_after) ==
    LET st == Module_validate(parsed, Reach(store, reporter, fails_after),
                              check_constraints)
    IN  /\ store' = st.cache
        /\ reporter' = st.loader
        /\ panicked' = st.panicked
        /\ last' = Call("validate", check_constraints,
                        SubSeq(st.loader, Len(reporter) + 1, Len(st.loader)))

\* parsed.validate(&store, &loader, check_constraints) with a reporter that
\* accepts every diagnostic
validate ==
    /\ validations < MaxValidations
    /\ ~panicked
    /\ \E check_constraints \in BOOLEAN : validate_call(check_constraints, None)
    /\ validations' = validations + 1
    /\ UNCHANGED <<parsed, detached>>

Next ==
    \/ add_to_imports
    \/ add_to_annotations
    \/ add_to_definitions
    \/ set_version_info
    \/ cache_insert
    \/ validate

Spec == Init /\ [][Next]_vars

(***************************************************************************)
(* Construction of modules and bodies                                      *)
(***************************************************************************)
\* definitions of a ModuleBody that is not yet part of a module
MaxDetached == 1

InitBuild ==
    /\ parsed \in {Module_empty(n) : n \in TopNames}
    /\ store = [n \in ModuleNames |-> None]
    /\ reporter = <<>>
    /\ validations = 0
    /\ panicked = FALSE
    /\ detached = ModuleBody_default
    /\ last = Call("new", parsed.name, parsed.name)

\* module.body_mut().extend_definitions(extension)
extend_definitions ==
    /\ NodeCount(parsed) + 2 <= MaxNodes
    /\ \E a \in DefinitionInputs(Len(parsed.body.definitions) + 1),
          b \in DefinitionInputs(Len(parsed.body.definitions) + 2) :
          LET r == ModuleBody_extend_definitions(parsed.body, <<a, b>>)
          IN  /\ parsed' = [parsed EXCEPT !.body = r.body]
              /\ last' = Call("extend_definitions", <<a, b>>, r.result)
    /\ UNCHANGED <<store, reporter, validations, panicked, detached>>

\* definition.set_body(body) on a definition of the module that has no body
definition_set_body ==
    /\ \E i \in 1..Len(parsed.body.definitions), body \in BodyInputs :
          /\ parsed.body.definitions[i].variant \in {"Entity", "Structure", "Event"}
          /\ ~is_some(parsed.body.definitions[i].body)
          /\ parsed' = [parsed EXCEPT !.body.definitions[i] =
                                         EntityDef_set_body(@, body)]
          /\ last' = Call("set_body", i, TRUE)
    /\ UNCHANGED <<store, reporter, validations, panicked, detached>>

\* module.set_name(name)
set_name ==
    /\ \E name \in TopNames :
          /\ name # parsed.name
          /\ parsed' = Module_set_name(parsed, name)
          /\ last' = Call("set_name", name, TRUE)
    /\ UNCHANGED <<store, reporter, validations, panicked, detached>>

\* module.body_mut().set_library_status(name)
body_mut_set_library_status ==
    /\ \E name \in TopNames :
          /\ parsed' = [parsed EXCEPT !.body = ModuleBody_set_library_status(@, name)]
          /\ last' = Call("body_mut().set_library_status", name, TRUE)
    /\ UNCHANGED <<store, reporter, validations, panicked, detached>>

\* body.set_library_status(name) on a body that is not part of a module
body_set_library_status ==
    /\ \E name \in TopNames :
          /\ detached' = ModuleBody_set_library_status(detached, name)
          /\ last' = Call("set_library_status", name, TRUE)
    /\ UNCHANGED <<parsed, store, reporter, validations, panicked>>

\* body.add_to_definitions(definition) on a body that is not part of a module
body_add_to_definitions ==
    /\ Len(detached.definitions) < MaxDetached
    /\ \E definition \in DefinitionInputs(Len(detached.definitions) + 1) :
          LET r == ModuleBody_add_to_definitions(detached, definition)
          IN  /\ detached' = r.body
              /\ last' = Call("body.add_to_definitions", definition, r.result)
    /\ UNCHANGED <<parsed, store, reporter, validations, panicked>>

\* Module::new(name, body)
module_new ==
    /\ \E name \in TopNames :
          /\ parsed' = Module_new(name, detached)
          /\ last' = Call("Module::new", name, TRUE)
    /\ UNCHANGED <<store, reporter, validations, panicked, detached>>

\* module.set_body(body)
module_set_body ==
    /\ parsed' = Module_set_body(parsed, detached)
    /\ last' = Call("Module::set_body", parsed.name, TRUE)
    /\ UNCHANGED <<store, reporter, validations, panicked, detached>>

NextBuild ==
    \/ add_to_definitions
    \/ extend_definitions
    \/ definition_set_body
    \/ set_name
    \/ body_mut_set_library_status
    \/ body_set_library_status
    \/ body_add_to_definitions
    \/ module_new
    \/ module_set_body

SpecBuild == InitBuild /\ [][NextBuild]_vars

\* the constructors alone: no renaming, no definition bodies, and the flag of
\* a body is set only before the body is part of a module
NextConstruct ==
    \/ body_set_library_status
    \/ body_add_to_definitions
    \/ add_to_definitions
    \/ extend_definitions
    \/ module_new
    \/ module_set_body

SpecConstruct == InitBuild /\ [][NextConstruct]_vars

(***************************************************************************)
(* Validation of whole files                                               *)
(***************************************************************************)
InitWalk ==
    /\ parsed \in WalkModules
    /\ store = [n \in ModuleNames |-> None]
    /\ reporter = <<>>
    /\ validations = 0
    /\ panicked = FALSE
    /\ detached = ModuleBody_default
    /\ last = Call("new", parsed.name, parsed.name)

\* loader: cache.insert(module) for a module that has imports of its own
cache_insert_importing ==
    /\ validations = 0
    /\ \E m \in ImportingModules :
          /\ ~is_some(ModuleStore_get(store, m.name))
          /\ store' = ModuleStore_insert(store, m)
          /\ last' = Call("insert", m.name, TRUE)
    /\ UNCHANGED <<parsed, reporter, validations, panicked, detached>>

\* loader: cache.insert(module) for the module it is about to validate
cache_insert_parsed ==
    /\ validations = 0
    /\ ~is_some(ModuleStore_get(store, parsed.name))
    /\ store' = ModuleStore_insert(store, parsed)
    /\ last' = Call("insert", parsed.name, TRUE)
    /\ UNCHANGED <<parsed, reporter, validations, panicked, detached>>

NextWalk ==
    \/ cache_insert
    \/ cache_insert_importing
    \/ cache_insert_parsed
    \/ validate

SpecWalk == InitWalk /\ [][NextWalk]_vars

(***************************************************************************)
(* Validation of modules with detailed definitions                         *)
(***************************************************************************)
InitDetailed ==
    /\ parsed \in DetailedModules
    /\ store = [n \in ModuleNames |-> None]
    /\ reporter = <<>>
    /\ validations = 0
    /\ panicked = FALSE
    /\ detached = ModuleBody_default
    /\ last = Call("new", parsed.name, parsed.name)

NextDetailed ==
    \/ cache_insert
    \/ validate

SpecDetailed == InitDetailed /\ [][NextDetailed]_vars

(***************************************************************************)
(* Validation with a reporter that can fail                                *)
(***************************************************************************)
\* the most diagnostics one call reports before the reporter returns Err
MaxAccepted == 1

\* the reporter returns Err from its first report on, or from a later one on
validate_reporter_fails ==
    /\ validations < MaxValidations
    /\ ~panicked
    /\ \E check_constraints \in BOOLEAN, n \in 0..MaxAccepted :
          validate_call(check_constraints, Some(n))
    /\ validations' = validations + 1
    /\ UNCHANGED <<parsed, detached>>

NextReporter ==
    \/ cache_insert
    \/ validate
    \/ validate_reporter_fails

SpecReporter == InitWalk /\ [][NextReporter]_vars

TypeOK ==
    /\ validations \in 0..MaxValidations
    /\ NodeCount(parsed) <= MaxNodes \/ parsed \in WalkModules
    /\ parsed.body.is_library = Module_is_library_module(parsed)
    /\ panicked = FALSE

(***************************************************************************)
(* Properties                                                              *)
(***************************************************************************)
\* the most recent call was Module::validate
Validated == last.op = "validate"

\* the diagnostics the most recent call of Module::validate reported
LastRun == IF Validated THEN last.ret[1] ELSE <<>>

CountKind(run, kinds) == Cardinality({k \in 1..Len(run) : run[k].kind \in kinds})

HasIncompleteDefinition(m) ==
    \E i \in 1..Len(m.body.definitions) : ~is_some(m.body.definitions[i].body)

\* C1: for a module with a library name, whatever it contains and whatever
\* the store holds, validate reports nothing and is_incomplete is false.
C1_LibraryExemption ==
    Module_is_library_module(parsed) =>
        /\ reporter = <<>>
        /\ LastRun = <<>>
        /\ ~Module_is_incomplete(parsed, store)

\* a library module with a body-less definition and an import of a module
\* that is not registered has been validated
C1_Witness ==
    /\ Module_is_library_module(parsed)
    /\ validations > 0
    /\ HasIncompleteDefinition(parsed)
    /\ \E s \in 1..Len(parsed.body.imports) :
          ~is_some(ModuleStore_get(store, parsed.body.imports[s].imports[1].module))

\* C2: one validate call on a non-library module reports module-is-incomplete
\* (naming the module) once if is_incomplete holds, as it does when an
\* EntityDef has no body, and never otherwise; never more than once.
C2_IncompleteReportedOnce ==
    ~Module_is_library_module(parsed) =>
        /\ (\E i \in 1..Len(parsed.body.definitions) :
               /\ parsed.body.definitions[i].variant = "Entity"
               /\ ~is_some(parsed.body.definitions[i].body))
           => Module_is_incomplete(parsed, store)
        /\ Validated =>
              /\ CountKind(LastRun, {"module-is-incomplete"})
                   = IF Module_is_incomplete(parsed, store) THEN 1 ELSE 0
              /\ \A k \in 1..Len(LastRun) :
                    LastRun[k].kind = "module-is-incomplete"
                       => LastRun[k].subject = <<parsed.name>>

\* a non-library module with two body-less definitions has been validated
C2_Witness ==
    /\ ~Module_is_library_module(parsed)
    /\ Validated
    /\ Cardinality({i \in 1..Len(parsed.body.definitions) :
                       ~is_some(parsed.body.definitions[i].body)}) >= 2

(***************************************************************************)
(* Import diagnostics                                                      *)
(***************************************************************************)
\* the places <<statement, import>> of the imports of statement s of module m
StatementPositions(m, s) ==
    {<<s, i>> : i \in 1..Len(m.body.imports[s].imports)}

ImportPositions(m) ==
    UNION {StatementPositions(m, s) : s \in 1..Len(m.body.imports)}

ImportAt(m, p) == m.body.imports[p[1]].imports[p[2]]

\* what ImportStatement::validate reports for statement s on a fresh reporter
StatementRun(top, cache, s) ==
    ImportStatement_validate(top.body.imports[s], top,
                             Reach(cache, <<>>, None)).loader

\* the import walks to look at: each statement of the module on its own, for
\* every module, and the last Module::validate of a non-library module
CheckedRuns ==
    {[run |-> StatementRun(parsed, store, s), at |-> StatementPositions(parsed, s)] :
        s \in 1..Len(parsed.body.imports)}
    \cup IF Validated /\ ~Module_is_library_module(parsed)
         THEN {[run |-> LastRun, at |-> ImportPositions(parsed)]}
         ELSE {}

\* the diagnostics of the given kinds in a run that carry the file id of the
\* importing module and a span inside the import
DiagsFor(run, top, import, kinds) ==
    {k \in 1..Len(run) :
        /\ run[k].kind \in kinds
        /\ run[k].file_id = unwrap_or_default(top.file_id)
        /\ is_some(run[k].span)
        /\ Within(unwrap(run[k].span), unwrap(import.span))}

VersionKinds == {"module-version-mismatch", "module-version-not-found"}

Target(import) == ModuleStore_get(store, import.module)

Unversioned(import) == import.variant = "Module" /\ ~is_some(import.version_uri)

Versioned(import) == import.variant = "Module" /\ is_some(import.version_uri)

\* C3: a module import without a version URI never causes a version
\* diagnostic, whether its target is absent, has a version URI or has none.
C3_NoVersionNoVersionDiagnostic ==
    \A r \in CheckedRuns : \A p \in r.at :
        Unversioned(ImportAt(parsed, p))
           => DiagsFor(r.run, parsed, ImportAt(parsed, p), VersionKinds) = {}

\* a non-library module importing, without a version URI, a registered
\* module that has a version URI has been validated
C3_Witness ==
    /\ Validated /\ ~Module_is_library_module(parsed)
    /\ \E p \in ImportPositions(parsed) :
          /\ Unversioned(ImportAt(parsed, p))
          /\ is_some(Target(ImportAt(parsed, p)))
          /\ is_some(unwrap(Target(ImportAt(parsed, p))).version_uri)

\* both the import and its registered target have a version URI
BothVersioned(import) ==
    /\ Versioned(import)
    /\ is_some(Target(import))
    /\ is_some(unwrap(Target(import)).version_uri)

Mismatch(import) ==
    /\ BothVersioned(import)
    /\ unwrap(import.version_uri).value # unwrap(unwrap(Target(import)).version_uri).value

\* C4: an import with version URI U1 of a registered module with version URI
\* U2 gets exactly one module-version-mismatch, placed in the importing file
\* at the import, if U1 # U2, and no version diagnostic if U1 = U2.
C4_VersionMismatch ==
    \A r \in CheckedRuns :
        /\ \A p \in r.at :
              LET import == ImportAt(parsed, p)
              IN  BothVersioned(import) =>
                     /\ Cardinality(DiagsFor(r.run, parsed, import,
                                             {"module-version-mismatch"}))
                          = IF Mismatch(import) THEN 1 ELSE 0
                     /\ DiagsFor(r.run, parsed, import,
                                 {"module-version-not-found"}) = {}
        /\ CountKind(r.run, {"module-version-mismatch"})
             = Cardinality({p \in r.at : Mismatch(ImportAt(parsed, p))})

\* a non-library module importing m2 at one version URI, with m2 registered
\* at another, has been validated
C4_Witness ==
    /\ Validated /\ ~Module_is_library_module(parsed)
    /\ \E p \in ImportPositions(parsed) : Mismatch(ImportAt(parsed, p))

TargetUnversioned(import) ==
    /\ Versioned(import)
    /\ is_some(Target(import))
    /\ ~is_some(unwrap(Target(import)).version_uri)

\* C5: an import with a version URI of a registered module that has none gets
\* exactly one module-version-not-found and no module-version-mismatch.
C5_VersionNotFound ==
    \A r \in CheckedRuns :
        /\ \A p \in r.at :
              LET import == ImportAt(parsed, p)
              IN  TargetUnversioned(import) =>
                     /\ Cardinality(DiagsFor(r.run, parsed, import,
                                             {"module-version-not-found"})) = 1
                     /\ DiagsFor(r.run, parsed, import,
                                 {"module-version-mismatch"}) = {}
        /\ CountKind(r.run, {"module-version-not-found"})
             = Cardinality({p \in r.at : TargetUnversioned(ImportAt(parsed, p))})

\* a non-library module importing m2 at a version URI, with m2 registered
\* without one, has been validated
C5_Witness ==
    /\ Validated /\ ~Module_is_library_module(parsed)
    /\ \E p \in ImportPositions(parsed) : TargetUnversioned(ImportAt(parsed, p))

Unregistered(import) == ~is_some(Target(import))

\* C6: every import, module or member, of a module that is not registered
\* gets exactly one imported-module-not-found and neither a version nor a
\* definition-not-found diagnostic; the imports after it are validated too.
C6_ImportedModuleNotFound ==
    \A r \in CheckedRuns :
        /\ \A p \in r.at :
              LET import == ImportAt(parsed, p)
              IN  Unregistered(import) =>
                     /\ Cardinality(DiagsFor(r.run, parsed, import,
                                             {"imported-module-not-found"})) = 1
                     /\ DiagsFor(r.run, parsed, import,
                                 VersionKinds \cup {"definition-not-found"}) = {}
        /\ CountKind(r.run, {"imported-module-not-found"})
             = Cardinality({p \in r.at : Unregistered(ImportAt(parsed, p))})

\* a non-library module with a module import and a member import of modules
\* that are not registered, the second after the first, has been validated
C6_Witness ==
    /\ Validated /\ ~Module_is_library_module(parsed)
    /\ \E p, q \in ImportPositions(parsed) :
          /\ p # q
          /\ ImportAt(parsed, p).variant = "Module"
          /\ ImportAt(parsed, q).variant = "Member"
          /\ Unregistered(ImportAt(parsed, p))
          /\ Unregistered(ImportAt(parsed, q))

MemberOfRegistered(import) ==
    import.variant = "Member" /\ is_some(Target(import))

MemberMissing(import) ==
    /\ MemberOfRegistered(import)
    /\ \A i \in 1..Len(unwrap(Target(import)).body.definitions) :
          unwrap(Target(import)).body.definitions[i].name # unwrap(import.member)

\* C7: a member import m2:Foo with m2 registered gets exactly one
\* definition-not-found if m2 defines no Foo, and no resolution diagnostic
\* if it does.
C7_MemberImport ==
    \A r \in CheckedRuns :
        /\ \A p \in r.at :
              LET import == ImportAt(parsed, p)
              IN  MemberOfRegistered(import) =>
                     /\ Cardinality(DiagsFor(r.run, parsed, import,
                                             {"definition-not-found"}))
                          = IF MemberMissing(import) THEN 1 ELSE 0
                     /\ DiagsFor(r.run, parsed, import,
                                 {"imported-module-not-found"}) = {}
        /\ CountKind(r.run, {"definition-not-found"})
             = Cardinality({p \in r.at : MemberMissing(ImportAt(parsed, p))})

\* a non-library module with a member import m2:Foo, m2 registered without a
\* definition Foo, has been validated
C7_Witness ==
    /\ Validated /\ ~Module_is_library_module(parsed)
    /\ \E p \in ImportPositions(parsed) : MemberMissing(ImportAt(parsed, p))

(***************************************************************************)
(* Construction errors, repeated validation, frame                         *)
(***************************************************************************)
LibraryOnly(definition) == definition.variant \in {"Rdf", "TypeClass"}

\* C8: add_to_definitions returns library-definition-not-allowed exactly when
\* the body is not a library body and the definition is an Rdf or TypeClass
\* definition; then the definitions stay as they are and nothing reaches the
\* reporter; otherwise the definition is appended at the end and Ok returned.
C8_AddToDefinitions ==
    [][last'.op = "add_to_definitions" =>
          LET definition == last'.arg[1]
              result == last'.ret[1]
          IN  /\ reporter' = reporter
              /\ IF ~parsed.body.is_library /\ LibraryOnly(definition)
                 THEN /\ ~result.is_ok
                      /\ unwrap(result.err).kind = "library-definition-not-allowed"
                      /\ parsed'.body.definitions = parsed.body.definitions
                 ELSE /\ result = Ok
                      /\ parsed'.body.definitions
                           = Append(parsed.body.definitions, definition)]_vars

\* an Rdf or TypeClass definition has been refused by a non-library body
\* that already holds a definition
C8_Witness ==
    /\ last.op = "add_to_definitions"
    /\ ~last.ret[1].is_ok
    /\ LibraryOnly(last.arg[1])
    /\ ~parsed.body.is_library
    /\ Len(parsed.body.definitions) > 0

\* C9: two validations of the same module against the same store with the
\* same check_constraints report the same diagnostics in the same order.
C9_Idempotence ==
    [][(/\ last.op = "validate"
        /\ last'.op = "validate"
        /\ last'.arg = last.arg
        /\ parsed' = parsed
        /\ store' = store)
          => last'.ret = last.ret]_vars

\* a module has been validated twice and both calls reported the same two
\* or more diagnostics
C9_Witness ==
    /\ Validated
    /\ validations >= 2
    /\ Len(LastRun) >= 2
    /\ Len(reporter) >= 2 * Len(LastRun)
    /\ SubSeq(reporter, Len(reporter) - 2 * Len(LastRun) + 1,
              Len(reporter) - Len(LastRun)) = LastRun

\* C10: a validate call leaves the validated module and the store as they
\* were, also when an import names a module that is not registered; the
\* reporter keeps what it held and only grows.
C10_ValidateFrame ==
    [][last'.op = "validate" =>
          /\ parsed' = parsed
          /\ store' = store
          /\ Registered(store') = Registered(store)
          /\ Len(reporter') >= Len(reporter)
          /\ SubSeq(reporter', 1, Len(reporter)) = reporter]_vars

\* a validation has reported an import of a module that is not registered,
\* and the module is still not registered
C10_Witness ==
    /\ Validated
    /\ \E k \in 1..Len(LastRun) :
          /\ LastRun[k].kind = "imported-module-not-found"
          /\ LastRun[k].subject[1] \notin Registered(store)

\* C11: Module::validate returns normally, after visiting every import,
\* annotation and definition, for every reporter, also one whose report call
\* returns an error.
C11_ValidateNeverPanics == Validated => ~panicked

ResolutionKinds ==
    VersionKinds \cup {"imported-module-not-found", "definition-not-found"}

\* the import cannot be resolved against the store as it is
FailsResolution(import) ==
    \/ Unregistered(import)
    \/ MemberMissing(import)
    \/ Mismatch(import)
    \/ TargetUnversioned(import)

FailingImports(m) == {p \in ImportPositions(m) : FailsResolution(ImportAt(m, p))}

\* the definitions whose name is not in the case of a type definition
IllCasedDefinitions(m) ==
    {i \in 1..Len(m.body.definitions) :
        ~PreferredCase(m.body.definitions[i].name, "TypeDefinition")}

\* the diagnostics of a run placed by file id and span at definition i
DiagsAtDefinition(run, top, i, kinds) ==
    {k \in 1..Len(run) :
        /\ run[k].kind \in kinds
        /\ run[k].file_id = unwrap_or_default(top.file_id)
        /\ is_some(run[k].span)
        /\ Within(unwrap(run[k].span), unwrap(top.body.definitions[i].span))}

\* C12: one validate call on a non-library module with k imports that fail to
\* resolve reports a resolution diagnostic for each of the k, k in all, and
\* still processes the definitions (an ill-cased name is reported) and the
\* completeness check (module-is-incomplete is reported when it applies).
C12_ValidationDoesNotStop ==
    (Validated /\ ~Module_is_library_module(parsed)) =>
        /\ \A p \in FailingImports(parsed) :
              Cardinality(DiagsFor(LastRun, parsed, ImportAt(parsed, p),
                                   ResolutionKinds)) = 1
        /\ CountKind(LastRun, ResolutionKinds) = Cardinality(FailingImports(parsed))
        /\ \A i \in IllCasedDefinitions(parsed) :
              DiagsAtDefinition(LastRun, parsed, i,
                                {"identifier-not-preferred-case"}) # {}
        /\ CountKind(LastRun, {"module-is-incomplete"})
             = IF Module_is_incomplete(parsed, store) THEN 1 ELSE 0

\* a non-library module with two imports that fail to resolve and an
\* ill-cased definition without a body has been validated
C12_Witness ==
    /\ Validated /\ ~Module_is_library_module(parsed)
    /\ Cardinality(FailingImports(parsed)) = 2
    /\ IllCasedDefinitions(parsed) # {}
    /\ Module_is_incomplete(parsed, store)
    /\ CountKind(LastRun, ResolutionKinds) = 2

\* the diagnostic is placed inside one of the nodes whose spans are given
PlacedIn(d, nodes) ==
    /\ is_some(d.span)
    /\ \E i \in 1..Len(nodes) : Within(unwrap(d.span), unwrap(nodes[i].span))

AllImports(m) ==
    [k \in 1..Cardinality(ImportPositions(m)) |->
        ImportAt(m, CHOOSE p \in ImportPositions(m) :
                        Cardinality({q \in ImportPositions(m) :
                            q[1] < p[1] \/ (q[1] = p[1] /\ q[2] <= p[2])}) = k)]

\* the step of Module::validate a diagnostic comes from, told by its kind and
\* its place in the file
Phase(d, top) ==
    CASE d.kind = "module-is-incomplete"                  -> 6
      [] d.kind = "module-version-info-empty"             -> 2
      [] PlacedIn(d, AllImports(top))                     -> 3
      [] PlacedIn(d, top.body.annotations)                -> 4
      [] PlacedIn(d, top.body.definitions)                -> 5
      [] d.kind = "identifier-not-preferred-case"
           /\ d.subject[1] = top.name                     -> 1
      [] OTHER                                            -> 0

\* C13: the diagnostics of one validate call on a non-library module come in
\* the order: module name case, empty version info, imports in declaration
\* order, top-level annotations, definitions, and module-is-incomplete last.
C13_DiagnosticOrder ==
    (Validated /\ ~Module_is_library_module(parsed)) =>
        \A j, k \in 1..Len(LastRun) :
            j < k =>
              /\ Phase(LastRun[j], parsed) # 0
              /\ Phase(LastRun[j], parsed) <= Phase(LastRun[k], parsed)
              /\ (Phase(LastRun[j], parsed) = 3 /\ Phase(LastRun[k], parsed) = 3)
                    => unwrap(LastRun[j].span).start <= unwrap(LastRun[k].span).start

\* one validate call has reported from every step: the name, the version
\* info, both imports, the annotation, the definition and the completeness
C13_Witness ==
    /\ Validated /\ ~Module_is_library_module(parsed)
    /\ {Phase(LastRun[k], parsed) : k \in 1..Len(LastRun)} = 1..6
    /\ \A p \in ImportPositions(parsed) :
          DiagsFor(LastRun, parsed, ImportAt(parsed, p), ResolutionKinds) # {}

\* the diagnostics produced while validating the imports of the module: what
\* each import statement reports on its own, and the resolution diagnostics
\* of the last Module::validate
ImportDiagnostics ==
    UNION {{StatementRun(parsed, store, s)[k] :
               k \in 1..Len(StatementRun(parsed, store, s))} :
           s \in 1..Len(parsed.body.imports)}
    \cup {LastRun[k] : k \in {j \in 1..Len(LastRun) :
                                  LastRun[j].kind \in ResolutionKinds}}

\* the diagnostic lies in the file of the importing module at one of its imports
AtImportOf(d, top) ==
    /\ d.file_id = unwrap_or_default(top.file_id)
    /\ PlacedIn(d, AllImports(top))

\* the registered module the import under the diagnostic names
TargetOf(d, top) ==
    LET import == CHOOSE import \in {ImportAt(top, p) : p \in ImportPositions(top)} :
                      Within(unwrap(d.span), unwrap(import.span))
    IN  unwrap(Target(import))

\* C14 as stated: every diagnostic produced while validating the imports of M
\* carries the file id of M and a span of an import of M, and no file id or
\* span of the imported module.
C14_OnlyImporterLocation ==
    \A d \in ImportDiagnostics :
        /\ AtImportOf(d, parsed)
        /\ d.file_id2 = DefaultFileId
        /\ d.span2 = None

\* C14: every diagnostic produced while validating the imports of M has the
\* file id of M and a span of an import of M as its location; module-version-
\* mismatch also carries the file id of the imported module and the span of
\* its version URI, module-version-not-found its file id and its span, and
\* the other import diagnostics carry no second location.
C14_ImporterLocationFirst ==
    \A d \in ImportDiagnostics :
        /\ AtImportOf(d, parsed)
        /\ CASE d.kind = "module-version-mismatch" ->
                   /\ d.file_id2 = unwrap_or_default(TargetOf(d, parsed).file_id)
                   /\ d.span2 = unwrap(TargetOf(d, parsed).version_uri).span
             [] d.kind = "module-version-not-found" ->
                   /\ d.file_id2 = unwrap_or_default(TargetOf(d, parsed).file_id)
                   /\ d.span2 = TargetOf(d, parsed).span
             [] OTHER ->
                   /\ d.file_id2 = DefaultFileId
                   /\ d.span2 = None

\* one validate call has reported a module-version-mismatch and a
\* module-version-not-found or imported-module-not-found next to it
C14_Witness ==
    /\ Validated /\ ~Module_is_library_module(parsed)
    /\ CountKind(LastRun, {"module-version-mismatch"}) > 0
    /\ CountKind(LastRun, {"imported-module-not-found", "definition-not-found"}) > 0
    /\ \E d \in ImportDiagnostics : d.file_id2 # unwrap_or_default(parsed.file_id)

\* C15: setting a body, with any members, on an entity, structure or event
\* definition that had none never makes a complete module incomplete: if the
\* module is incomplete afterwards it was incomplete before.
C15_CompletenessMonotone ==
    [][last'.op = "set_body" =>
          (Module_is_incomplete(parsed', store') => Module_is_incomplete(parsed, store))]_vars

\* a body-less entity of a non-library module has been given a body with a
\* member that is not complete
C15_Witness ==
    /\ last.op = "set_body"
    /\ ~Module_is_library_module(parsed) /\ ~parsed.body.is_library
    /\ LET def == parsed.body.definitions[unwrap(last.arg)]
       IN  /\ def.variant = "Entity"
           /\ ~EntityBody_is_complete(unwrap(def.body))

\* store contents to compare: nothing registered, one module registered, or
\* the store as it is
StoreContents ==
    {store, [n \in ModuleNames |-> None]}
    \cup {ModuleStore_insert([n \in ModuleNames |-> None], m) :
             m \in LoadableModules \cup ImportingModules}

\* C16: for one module, is_incomplete returns the same boolean whatever the
\* store holds, and always returns one.
C16_IsIncompleteIgnoresStore ==
    \A c1, c2 \in StoreContents :
        /\ Module_is_incomplete(parsed, c1) \in BOOLEAN
        /\ Module_is_incomplete(parsed, c1) = Module_is_incomplete(parsed, c2)

\* an incomplete module importing m2 is held while m2 is registered, so that
\* the store with m2 and the store without it are compared
C16_Witness ==
    /\ Module_is_incomplete(parsed, store)
    /\ is_some(ModuleStore_get(store, "m2"))
    /\ \E p \in ImportPositions(parsed) : ImportAt(parsed, p).module = "m2"
    /\ Cardinality(StoreContents) > 2

\* the bodies of the definitions of the module
NestedBodies(m) ==
    {unwrap(m.body.definitions[i].body) :
        i \in {j \in 1..Len(m.body.definitions) : is_some(m.body.definitions[j].body)}}

\* every annotation of the module, at the top level or inside a definition
AllAnnotations(m) ==
    {m.body.annotations[i] : i \in 1..Len(m.body.annotations)}
    \cup UNION {{b.annotations[i] : i \in 1..Len(b.annotations)} : b \in NestedBodies(m)}

ConstraintKinds == {"constraint-not-valid"}

WithoutConstraints(run) == SelectSeq(run, LAMBDA d : d.kind \notin ConstraintKinds)

\* what a validate call with the given flag reports on a fresh reporter
RunWith(check_constraints) ==
    Module_validate(parsed, Reach(store, <<>>, None), check_constraints).loader

\* C17: with check_constraints false every constraint, at the top level or
\* nested, counts as valid without inspection and nothing is reported for it;
\* with true the constraint's own verdict is the result; properties are
\* treated alike for both values, and so is every other diagnostic.
C17_CheckConstraintsGates ==
    /\ \A a \in AllAnnotations(parsed) :
          /\ a.variant = "Constraint" =>
                /\ Annotation_is_valid(a, FALSE) = OkBool(TRUE)
                /\ Annotation_is_valid(a, TRUE) = Constraint_is_valid(a, TRUE)
          /\ a.variant = "Property" =>
                Annotation_is_valid(a, FALSE) = Annotation_is_valid(a, TRUE)
    /\ \A b \in NestedBodies(parsed) :
          AnnotationOnlyBody_is_valid(b, FALSE) = OkBool(TRUE)
    /\ (Validated /\ ~Module_is_library_module(parsed)) =>
          LET check_constraints == unwrap(last.arg)
          IN  /\ ~check_constraints => CountKind(LastRun, ConstraintKinds) = 0
              /\ check_constraints =>
                    CountKind(LastRun, ConstraintKinds)
                      = Cardinality({a \in AllAnnotations(parsed) :
                                        ~Constraint_is_valid(a, TRUE).value})
              /\ WithoutConstraints(LastRun)
                    = WithoutConstraints(RunWith(~check_constraints))

\* a module with a constraint at the top level and one inside a definition,
\* both not valid, has been validated with check_constraints false, and the
\* call has reported other diagnostics
C17_Witness ==
    /\ Validated /\ ~Module_is_library_module(parsed)
    /\ unwrap(last.arg) = FALSE
    /\ parsed.body.annotations # <<>>
    /\ parsed.body.annotations[1].variant = "Constraint"
    /\ \E b \in NestedBodies(parsed) :
          ~AnnotationOnlyBody_is_valid(b, TRUE).value
    /\ LastRun # <<>>
    /\ CountKind(RunWith(TRUE), ConstraintKinds) = 2

\* the registered modules that have imports of their own
ImportingTargets ==
    {n \in Registered(store) : unwrap(store[n]).body.imports # <<>>}

\* the diagnostics of the last run that come from the import step
ImportPhase(run, top) == {k \in 1..Len(run) : Phase(run[k], top) = 3}

C19_LibraryFlagFollowsName ==
    parsed.body.is_library = Module_is_library_module(parsed)

\* the definitions that only a library module may hold
LibraryOnlyDefinitions(body) ==
    {i \in 1..Len(body.definitions) :
        body.definitions[i].variant \in {"Rdf", "TypeClass"}}

\* C20: no sequence of ModuleBody::default, set_library_status,
\* add_to_definitions, extend_definitions, Module::new and Module::set_body
\* gives a module that is not a library module and whose body holds an Rdf
\* or TypeClass definition.
C20_NoLibraryDefinitionOutsideLibrary ==
    ~Module_is_library_module(parsed) => LibraryOnlyDefinitions(parsed.body) = {}

\* the body without its imports and top-level annotations
DefinitionsOnly(body) == [body EXCEPT !.imports = <<>>, !.annotations = <<>>]

\* C21: a module body is incomplete iff one of its definitions is; a body
\* without definitions is complete, and the imports and top-level
\* annotations do not change the answer.
C21_BodyIncompleteIffDefinition ==
    /\ ModuleBody_is_incomplete(parsed.body, parsed, store)
         = (\E i \in 1..Len(parsed.body.definitions) :
               Definition_is_incomplete(parsed.body.definitions[i]))
    /\ parsed.body.definitions = <<>>
         => ~ModuleBody_is_incomplete(parsed.body, parsed, store)
    /\ ModuleBody_is_incomplete(DefinitionsOnly(parsed.body), parsed, store)
         = ModuleBody_is_incomplete(parsed.body, parsed, store)

\* a body with an import of a module that is not registered and with a
\* definition that has a body is held, and it is complete
C21_Witness ==
    /\ \E p \in ImportPositions(parsed) : Unregistered(ImportAt(parsed, p))
    /\ parsed.body.definitions # <<>>
    /\ ~ModuleBody_is_incomplete(parsed.body, parsed, store)
    /\ ~Module_is_library_module(parsed)

\* the entity definitions of the module that have a body
EntitiesWithBody(m) ==
    {i \in 1..Len(m.body.definitions) :
        /\ m.body.definitions[i].variant = "Entity"
        /\ is_some(m.body.definitions[i].body)}

\* some direct member, or some member inside a group, is not complete
HasIncompleteMember(body) ==
    \/ \E i \in 1..Len(body.members) : ~body.members[i].is_complete
    \/ \E g \in 1..Len(body.groups) :
          \E i \in 1..Len(body.groups[g].members) :
              ~body.groups[g].members[i].is_complete

\* C22: an entity body is incomplete iff a direct member or a member inside
\* one of its groups is incomplete, and a non-library module holding an
\* entity definition with such a body is incomplete and is reported so.
C22_MemberIncompletenessPropagates ==
    /\ \A i \in EntitiesWithBody(parsed) :
          LET body == unwrap(parsed.body.definitions[i].body)
          IN  ~EntityBody_is_complete(body) = HasIncompleteMember(body)
    /\ (~Module_is_library_module(parsed)
          /\ \E i \in EntitiesWithBody(parsed) :
                HasIncompleteMember(unwrap(parsed.body.definitions[i].body)))
         => /\ Module_is_incomplete(parsed, store)
            /\ Validated => CountKind(LastRun, {"module-is-incomplete"}) = 1

\* the body without its Rdf definitions
WithoutRdf(body) ==
    [body EXCEPT !.definitions =
        SelectSeq(body.definitions, LAMBDA d : d.variant # "Rdf")]

OnlyRdf(m) ==
    /\ m.body.definitions # <<>>
    /\ \A i \in 1..Len(m.body.definitions) :
          m.body.definitions[i].variant = "Rdf"

\* C23: an Rdf definition is never incomplete, whatever its body holds: it
\* does not change the completeness of its module, and a module holding
\* only Rdf definitions is never reported incomplete.
C23_RdfNeverIncomplete ==
    /\ \A i \in 1..Len(parsed.body.definitions) :
          parsed.body.definitions[i].variant = "Rdf"
            => /\ ~RdfDef_is_incomplete(parsed.body.definitions[i])
               /\ ~Definition_is_incomplete(parsed.body.definitions[i])
    /\ ModuleBody_is_incomplete(parsed.body, parsed, store)
         = ModuleBody_is_incomplete(WithoutRdf(parsed.body), parsed, store)
    /\ (Validated /\ OnlyRdf(parsed))
         => CountKind(LastRun, {"module-is-incomplete"}) = 0

C23_Witness ==
    /\ Validated
    /\ ~Module_is_library_module(parsed)
    /\ OnlyRdf(parsed)
    /\ \E i \in 1..Len(parsed.body.definitions) :
          unwrap(parsed.body.definitions[i].body) = EmptyBody
    /\ CountKind(LastRun, {"module-is-incomplete"}) = 0

PropertyAnnotations(m) ==
    {a \in AllAnnotations(m) : a.variant = "Property"}

\* C24: a property annotation is always complete and always valid, with or
\* without constraint checking and whether or not its name resolves, and
\* validation reports nothing at it.
C24_PropertyAlwaysCompleteAndValid ==
    \A a \in PropertyAnnotations(parsed) :
        /\ AnnotationProperty_is_complete(a) = OkBool(TRUE)
        /\ \A cc \in BOOLEAN :
              /\ AnnotationProperty_is_valid(a, cc) = OkBool(TRUE)
              /\ Annotation_is_valid(a, cc) = OkBool(TRUE)
        /\ Validated =>
              \A i \in 1..Len(LastRun) : ~PlacedIn(LastRun[i], <<a>>)

C24_Witness ==
    /\ Validated
    /\ last.arg = <<TRUE>>
    /\ \E a \in PropertyAnnotations(parsed) :
          /\ a.value = Some("42")
          /\ a.name_reference = Some(<<"dc", "title">>)
          /\ \A i \in 1..Len(LastRun) : ~PlacedIn(LastRun[i], <<a>>)

\* the names a lookup is made with: two that definitions carry, one that none does
LookupNames == {"Foo", "bar", "Baz"}

\* the places of the definitions with the name, in declaration order
PlacesNamed(m, name) ==
    {i \in 1..Len(m.body.definitions) : m.body.definitions[i].name = name}

\* C25: lookup by name in one module returns the first definition in
\* declaration order with that name and None iff no definition has it, and
\* Module::resolve_local and ModuleBody::get_definition agree, also when
\* several definitions share the name.
C25_FirstMatchWins ==
    \A name \in LookupNames :
        LET places == PlacesNamed(parsed, name)
            found  == Module_resolve_local(parsed, name)
        IN  /\ found = ModuleBody_get_definition(parsed.body, name)
            /\ (found = None) = (places = {})
            /\ places # {}
                 => found = Some(parsed.body.definitions[
                                CHOOSE i \in places : \A j \in places : i <= j])

C25_Witness ==
    /\ Cardinality(PlacesNamed(parsed, "Foo")) = 2
    /\ parsed.body.definitions[1] # parsed.body.definitions[2]
    /\ Module_resolve_local(parsed, "Foo") = Some(parsed.body.definitions[1])
    /\ Module_resolve_local(parsed, "Baz") = None

VersionInfoKinds == {"module-version-info-empty"}

\* the version-info header is there and its text is empty
EmptyVersionInfo(m) ==
    is_some(m.version_info) /\ unwrap(m.version_info).value = ""

\* what the same call reports for the module without its version-info header
RunWithoutVersionInfo ==
    Module_validate([parsed EXCEPT !.version_info = None],
                    Reach(store, <<>>, None), last.arg[1]).loader

\* C26: validate of a non-library module reports module-version-info-empty
\* once if the version-info header is present with an empty text and never
\* otherwise, and the rest of the run is what the module reports without
\* the header: the body is validated all the same.
C26_EmptyVersionInfoWarnsOnce ==
    (Validated /\ ~Module_is_library_module(parsed))
        => /\ CountKind(LastRun, VersionInfoKinds)
                = IF EmptyVersionInfo(parsed) THEN 1 ELSE 0
           /\ SelectSeq(LastRun, LAMBDA d : d.kind \notin VersionInfoKinds)
                = RunWithoutVersionInfo

C26_Witness ==
    /\ Validated
    /\ ~Module_is_library_module(parsed)
    /\ EmptyVersionInfo(parsed)
    /\ CountKind(LastRun, VersionInfoKinds) = 1
    /\ CountKind(LastRun, ResolutionKinds) = 1
    /\ CountKind(LastRun, {"module-is-incomplete"}) = 1

ImportsOf(m) == {ImportAt(m, p) : p \in ImportPositions(m)}

\* C27: imported_modules is the set of the module names of all imports, the
\* name of a module import and the module part of a member import, each
\* once; imported_types is the set of the qualified identifiers of the
\* member imports and holds nothing for a module import.
C27_ImportedModulesAndTypes ==
    /\ Module_imported_modules(parsed) = {imp.module : imp \in ImportsOf(parsed)}
    /\ Module_imported_types(parsed)
         = {<<imp.module, unwrap(imp.member)>> :
               imp \in {x \in ImportsOf(parsed) : x.variant = "Member"}}
    /\ (\A imp \in ImportsOf(parsed) : imp.variant = "Module")
         => Module_imported_types(parsed) = {}

C27_Witness ==
    /\ \E a, b \in ImportsOf(parsed) :
          /\ a.variant = "Module"
          /\ b.variant = "Member"
          /\ a.module = b.module
    /\ Cardinality(Module_imported_modules(parsed)) = 1
    /\ Cardinality(Module_imported_types(parsed)) = 1

\* the places in AllImports, i.e. in declaration order, of the imports that
\* name the module
PlacesImporting(m, name) ==
    {k \in 1..Len(AllImports(m)) : AllImports(m)[k].module = name}

\* the entry the import gives: its version URI, None for a member import
EntryOf(imp) == IF imp.variant = "Module" THEN imp.version_uri ELSE None

\* C30: the keys of imported_module_versions are the names in
\* imported_modules, and the entry of a name is the one given by the last
\* import in declaration order that names it: the optional version URI of a
\* module import, None for a member import.
C30_LastImportGivesVersion ==
    LET versions == Module_imported_module_versions(parsed)
    IN  /\ DOMAIN versions = Module_imported_modules(parsed)
        /\ \A name \in DOMAIN versions :
              LET places == PlacesImporting(parsed, name)
                  k == CHOOSE i \in places : \A j \in places : j <= i
              IN  versions[name] = EntryOf(AllImports(parsed)[k])

C30_Witness ==
    /\ Len(AllImports(parsed)) = 2
    /\ Versioned(AllImports(parsed)[1])
    /\ AllImports(parsed)[2].variant = "Member"
    /\ AllImports(parsed)[2].module = AllImports(parsed)[1].module
    /\ Module_imported_module_versions(parsed)[AllImports(parsed)[1].module] = None

\* the expected version URI of the import and the actual one of its target
Expected(import) == unwrap(import.version_uri)

Actual(import) == unwrap(unwrap(Target(import)).version_uri)

\* C28: the expected and the actual version URI are compared by value only:
\* they are equal iff their URI texts are, whatever their source spans, and
\* an import whose URI text is the target's gets no module-version-mismatch.
C28_VersionEqualityByValue ==
    \A p \in ImportPositions(parsed) :
        LET import == ImportAt(parsed, p)
        IN  BothVersioned(import) =>
               /\ HeaderValue_eq(Actual(import), Expected(import))
                    = (Actual(import).value = Expected(import).value)
               /\ HeaderValue_eq(Actual(import), Expected(import))
                    = HeaderValue_eq(Actual(import),
                         [Expected(import) EXCEPT !.span = Actual(import).span])
               /\ (Validated /\ Actual(import).value = Expected(import).value)
                    => DiagsFor(LastRun, parsed, import,
                                {"module-version-mismatch"}) = {}

C28_Witness ==
    /\ Validated
    /\ ~Module_is_library_module(parsed)
    /\ \E p \in ImportPositions(parsed) :
          LET import == ImportAt(parsed, p)
          IN  /\ BothVersioned(import)
              /\ Actual(import).value = Expected(import).value
              /\ Actual(import).span # Expected(import).span
              /\ CountKind(LastRun, {"module-version-mismatch"}) = 0

\* the places of the extension whose definition add_to_definitions rejects
RejectedPlaces(body, extension) ==
    {i \in 1..Len(extension) :
        ~ModuleBody_add_to_definitions(body, extension[i]).result.is_ok}

\* the number of definitions of the extension that come before the first
\* rejected one: all of them when none is rejected
AcceptedPrefix(body, extension) ==
    IF RejectedPlaces(body, extension) = {} THEN Len(extension)
    ELSE (CHOOSE i \in RejectedPlaces(body, extension) :
             \A j \in RejectedPlaces(body, extension) : i <= j) - 1

\* C29: extend_definitions appends the given definitions in order up to the
\* first one add_to_definitions rejects and returns that one's error; the
\* rejected one and all after it are not added, the ones before it stay;
\* with none rejected all are appended and Ok is returned.
C29_ExtendStopsAtFirstRejected ==
    [][last'.op = "extend_definitions" =>
         LET extension == last'.arg[1]
             n == AcceptedPrefix(parsed.body, extension)
         IN  /\ parsed'.body.definitions
                  = parsed.body.definitions \o SubSeq(extension, 1, n)
             /\ parsed' = [parsed EXCEPT !.body.definitions = parsed'.body.definitions]
             /\ last'.ret[1] =
                  IF n = Len(extension) THEN Ok
                  ELSE ModuleBody_add_to_definitions(
                           parsed.body, extension[n + 1]).result
             /\ last'.ret[1].is_ok = (n = Len(extension))]_vars

C29_Witness ==
    /\ last.op = "extend_definitions"
    /\ ~last.ret[1].is_ok
    /\ Len(last.arg[1]) = 2
    /\ parsed.body.definitions = <<last.arg[1][1]>>

====
